---------------------------- MODULE Spec2Model ----------------------------
(***************************************************************************)
(* Model of the GeoformerNMR data-preparation code:                        *)
(*   - train_val_test_split           (src/utils.py)                       *)
(*   - DatasetBuilder.mol2graph, CarbonDatasetBuilder.build / process /    *)
(*     get_carbon_shift, ChemicalShiftDataset   (src/utils/loader.py)      *)
(*   - CarbonDataset.process          (src/loader/carbon.py)               *)
(*                                                                         *)
(* Numbers.  Split fractions are the rationals k/FracDen.  Chemical shift  *)
(* values are integers counting quarters of a ppm, so that the mean of two *)
(* parsed values (the median of an even-sized list) is again an integer.   *)
(***************************************************************************)
EXTENDS Integers, Sequences, FiniteSets, TLC

VARIABLES
    split_in,     \* arguments of the current train_val_test_split call
    split_loc,    \* its locals: is_float, counts before/after compensation
    split_out,    \* its outcome: status and the three index arrays
    mol,          \* the molecule at hand (process: the loop variable)
    graph,        \* what mol2graph gave for mol
    atom_shifts,  \* what get_carbon_shift gave for mol
    shift,        \* the label array np.array([...'shift'...]) built for mol
    mask,         \* the mask array np.array([...'mask'...]) built for mol
    obj,          \* the loader class in use: CarbonDatasetBuilder or CarbonDataset
    raw_exists,   \* raw/carbon_dataset.sdf exists
    processed,    \* processed/processed.pt: absent, or the saved dictionary
    pc,           \* "idle", or inside a process() loop
    suppl,        \* the molecules the supplier of process() has yielded so far
    graph_list,   \* process() locals
    label_list,
    mask_list,
    data_list,    \* CarbonDataset.process local
    outcome,      \* how the latest loop iteration ended
    ret,          \* what the latest build() call gave its caller
    log           \* the line build() printed when it looked for its files

split_vars == <<split_in, split_loc, split_out>>

mol_vars == <<mol, graph, atom_shifts, shift, mask>>

file_vars == <<obj, raw_exists, processed>>

loop_vars == <<pc, suppl, graph_list, label_list, mask_list, data_list,
               outcome, ret, log>>

vars == <<split_in, split_loc, split_out, mol, graph, atom_shifts, shift,
          mask, obj, raw_exists, processed, pc, suppl, graph_list, label_list,
          mask_list, data_list, outcome, ret, log>>

-----------------------------------------------------------------------------
(* Bounds *)

MaxN == 3          \* dataset lengths 0..MaxN
FracDen == 4       \* float sizes are k/FracDen, k in -1..FracDen+1
MaxSeed == 5       \* seeds 0..MaxSeed
MaxAtoms == 3      \* molecules of 1..MaxAtoms atoms
MaxBonds == 2      \* molecules of 0..MaxBonds bonds
MaxObs == 2        \* annotation groups per molecule, over all properties
MaxMols == 2       \* molecules in a raw file

-----------------------------------------------------------------------------
(* Generic helpers *)

Range(s) == {s[k] : k \in 1..Len(s)}

Min(a, b) == IF a <= b THEN a ELSE b

Max(a, b) == IF a >= b THEN a ELSE b

RECURSIVE SeqSum(_)
SeqSum(s) == IF s = <<>> THEN 0 ELSE Head(s) + SeqSum(Tail(s))

\* Python s[a:b] for a sequence: negative bounds count from the end, bounds
\* are clamped to the length, an empty or inverted window gives [].
PySlice_InclusiveEnd(s, a, b) ==
    LET n  == Len(s)
        lo == IF a < 0 THEN Max(0, n + a) ELSE Min(a, n)
        hi == IF b < 0 THEN Max(0, n + b) ELSE Min(b, n)
    IN  SubSeq(s, lo + 1, Min(hi + 1, n))

PySlice(s, a, b) ==
    LET n  == Len(s)
        lo == IF a < 0 THEN Max(0, n + a) ELSE Min(a, n)
        hi == IF b < 0 THEN Max(0, n + b) ELSE Min(b, n)
    IN  SubSeq(s, lo + 1, hi)

-----------------------------------------------------------------------------
(* src/utils.py : train_val_test_split *)

NoneSize == [kind |-> "None", n |-> 0]

IntSize(k) == [kind |-> "int", n |-> k]

FloatSize(k) == [kind |-> "float", n |-> k]     \* the float k/FracDen

SizeArgs ==
    {NoneSize}
        \cup {IntSize(k) : k \in -1..(MaxN + 1)}
        \cup {FloatSize(k) : k \in -1..(FracDen + 1)}

\* Python round() of the rational num/den (den > 0): nearest integer, ties to
\* the even neighbour.
PyRound(num, den) ==
    LET q == num \div den
        r == num % den
    IN  IF 2 * r < den THEN q
        ELSE IF 2 * r > den THEN q + 1
        ELSE IF q % 2 = 0 THEN q ELSE q + 1

\* (x is None) + (y is None) + (z is None)
NoneCount(tr, va, te) ==
    (IF tr.kind = "None" THEN 1 ELSE 0)
        + (IF va.kind = "None" THEN 1 ELSE 0)
        + (IF te.kind = "None" THEN 1 ELSE 0)

\* isinstance(size, float)
IsFloat(size) == size.kind = "float"

\* round(dset_len * size) if is_float else size      (None stays None)
RoundSize(dset_len, size) ==
    IF IsFloat(size) THEN IntSize(PyRound(dset_len * size.n, FracDen)) ELSE size

\* The if/elif/elif chain that fills in the one size left as None.  The
\* result is the triple of integer counts <<train, val, test>>.
InferSizes(dset_len, tr, va, te) ==
    IF tr.kind = "None" THEN <<dset_len - va.n - te.n, va.n, te.n>>
    ELSE IF va.kind = "None" THEN <<tr.n, dset_len - tr.n - te.n, te.n>>
    ELSE IF te.kind = "None" THEN <<tr.n, va.n, dset_len - tr.n - va.n>>
    ELSE <<tr.n, va.n, te.n>>

Compensate_TrainFirst(dset_len, counts, is_float) ==
    IF counts[1] + counts[2] + counts[3] > dset_len
    THEN IF is_float[1] THEN <<counts[1] - 1, counts[2], counts[3]>>
         ELSE IF is_float[2] THEN <<counts[1], counts[2] - 1, counts[3]>>
         ELSE IF is_float[3] THEN <<counts[1], counts[2], counts[3] - 1>>
         ELSE counts
    ELSE counts

\* Rounding compensation: counts is <<train, val, test>>, is_float the triple
\* of isinstance flags in the same order.
Compensate(dset_len, counts, is_float) ==
    IF counts[1] + counts[2] + counts[3] > dset_len
    THEN IF is_float[3] THEN <<counts[1], counts[2], counts[3] - 1>>
         ELSE IF is_float[2] THEN <<counts[1], counts[2] - 1, counts[3]>>
         ELSE IF is_float[1] THEN <<counts[1] - 1, counts[2], counts[3]>>
         ELSE counts
    ELSE counts

\* assert train_size >= 0 and val_size >= 0 and test_size >= 0
AssertNonNegative(counts) == counts[1] >= 0 /\ counts[2] >= 0 /\ counts[3] >= 0

AssertFits_Skipped(dset_len, counts) == TRUE

\* assert dset_len >= total
AssertFits(dset_len, counts) == dset_len >= counts[1] + counts[2] + counts[3]

\* np.arange(dset_len)
RECURSIVE Arange(_)
Arange(n) == IF n <= 0 THEN <<>> ELSE Append(Arange(n - 1), n - 1)

RemoveAt(s, k) == SubSeq(s, 1, k - 1) \o SubSeq(s, k + 1, Len(s))

\* np.random.default_rng(seed).permutation(idxs): a permutation of idxs that
\* is a function of the seed only.  The generator itself is library code; the
\* seed is read here as the factorial-base code of the permutation, so that
\* the seeds 0..n!-1 produce every permutation of n items.
RECURSIVE Permutation(_, _)
Permutation(seed, idxs) ==
    IF idxs = <<>> THEN <<>>
    ELSE LET k == (seed % Len(idxs)) + 1
         IN  <<idxs[k]>> \o Permutation(seed \div Len(idxs), RemoveAt(idxs, k))

NoLocals == [is_float |-> <<FALSE, FALSE, FALSE>>, pre |-> <<0, 0, 0>>,
             counts |-> <<0, 0, 0>>, defined |-> FALSE]

NoOutput == [status |-> "pending", idx_train |-> <<>>, idx_val |-> <<>>,
             idx_test |-> <<>>]

Raised(exc) == [status |-> exc, idx_train |-> <<>>, idx_val |-> <<>>,
                idx_test |-> <<>>]

\* One call of train_val_test_split(dset_len, train_size, val_size,
\* test_size, seed) on the arguments held in split_in.
TrainValTestSplit ==
    /\ split_out.status = "pending"
    /\ LET a        == split_in
           is_float == <<IsFloat(a.train_size), IsFloat(a.val_size),
                         IsFloat(a.test_size)>>
           tr       == RoundSize(a.dset_len, a.train_size)
           va       == RoundSize(a.dset_len, a.val_size)
           te       == RoundSize(a.dset_len, a.test_size)
           pre      == InferSizes(a.dset_len, tr, va, te)
           counts   == Compensate(a.dset_len, pre, is_float)
           total    == counts[1] + counts[2] + counts[3]
           idxs     == Permutation(a.seed, Arange(a.dset_len))
       IN  IF NoneCount(a.train_size, a.val_size, a.test_size) > 1
           THEN /\ split_loc' = NoLocals
                /\ split_out' = Raised("AssertionError")
           ELSE /\ split_loc' = [is_float |-> is_float, pre |-> pre,
                                 counts |-> counts, defined |-> TRUE]
                /\ IF AssertNonNegative(counts) /\ AssertFits(a.dset_len, counts)
                   THEN split_out' =
                            [status    |-> "returned",
                             idx_train |-> PySlice(idxs, 0, counts[1]),
                             idx_val   |-> PySlice(idxs, counts[1],
                                                   counts[1] + counts[2]),
                             idx_test  |-> PySlice(idxs, counts[1] + counts[2],
                                                   total)]
                   ELSE split_out' = Raised("AssertionError")
    /\ UNCHANGED <<split_in, mol_vars, file_vars, loop_vars>>

SplitIdle ==
    /\ split_in = [dset_len |-> 0, train_size |-> NoneSize, val_size |-> NoneSize,
                   test_size |-> NoneSize, seed |-> 0]
    /\ split_loc = NoLocals
    /\ split_out = NoOutput


-----------------------------------------------------------------------------
(* Molecules as the chemistry library hands them over (rdkit Mol).         *)
(*   atoms : element symbols, atom i of the code is atoms[i+1]             *)
(*   bonds : records [i, j, type, stereo, conj], in GetBonds() order       *)
(*   conf  : the conformer read from the record's coordinate block         *)
(*   props : the property dict, a sequence of [key, value] in file order;  *)
(*           a key is its sequence of words, a value its sequence of       *)
(*           tokens: field texts and the separators "|" and ";"            *)

Num(q) == [nan |-> FALSE, q |-> q]       \* the float q/4

NaN == [nan |-> TRUE, q |-> 0]

NoneMol == [isNone |-> TRUE, atoms |-> <<>>, bonds |-> <<>>, conf |-> "3D",
            props |-> <<>>]

Mol(atoms, bonds, conf, props) ==
    [isNone |-> FALSE, atoms |-> atoms, bonds |-> bonds, conf |-> conf,
     props |-> props]

\* mol.GetNumAtoms(), len(mol.GetAtoms())
GetNumAtoms(m) == Len(m.atoms)

\* atom.GetAtomicNum()
GetAtomicNum(sym) ==
    CASE sym = "H" -> 1
      [] sym = "C" -> 6
      [] sym = "O" -> 8
      [] sym = "Se" -> 34
      [] OTHER -> 0

\* ogb atom_to_feature_vector(atom): a vector fixed by the atom; its first
\* entry is the element, the other entries are not told apart here.
AtomToFeatureVector(sym) == <<GetAtomicNum(sym)>>

\* ogb bond_to_feature_vector(bond): bond type, bond stereo, is_conjugated
BondToFeatureVector(b) == <<b.type, b.stereo, b.conj>>

-----------------------------------------------------------------------------
(* src/utils/loader.py : DatasetBuilder.mol2graph *)

NoGraph(status) == [status |-> status, x |-> <<>>, edge_index |-> <<<<>>, <<>>>>,
                    edge_attr |-> <<>>, pos |-> "3D", z |-> <<>>]

\* The loop over mol.GetBonds() building edges_list.
RECURSIVE EdgesList(_)
EdgesList(bonds) ==
    IF bonds = <<>> THEN <<>>
    ELSE <<<<Head(bonds).i, Head(bonds).j>>, <<Head(bonds).j, Head(bonds).i>>>>
             \o EdgesList(Tail(bonds))

EdgeFeaturesList_Once(bonds) ==
    [k \in 1..Len(bonds) |-> BondToFeatureVector(bonds[k])]

\* The same loop building edge_features_list.
RECURSIVE EdgeFeaturesList(_)
EdgeFeaturesList(bonds) ==
    IF bonds = <<>> THEN <<>>
    ELSE <<BondToFeatureVector(Head(bonds)), BondToFeatureVector(Head(bonds))>>
             \o EdgeFeaturesList(Tail(bonds))

\* np.array(edges_list).T : the [num_edges, 2] list as a [2, num_edges] array
Transpose(edges) ==
    <<[k \in 1..Len(edges) |-> edges[k][1]], [k \in 1..Len(edges) |-> edges[k][2]]>>

mol2graph_EmptyGraph(m) ==
    [status     |-> "graph",
     x          |-> [k \in 1..Len(m.atoms) |-> AtomToFeatureVector(m.atoms[k])],
     edge_index |-> Transpose(EdgesList(m.bonds)),
     edge_attr  |-> EdgeFeaturesList(m.bonds),
     pos        |-> m.conf,
     z          |-> [k \in 1..Len(m.atoms) |-> GetAtomicNum(m.atoms[k])]]

mol2graph(m) ==
    IF Len(m.bonds) > 0
    THEN [status     |-> "graph",
          x          |-> [k \in 1..Len(m.atoms) |-> AtomToFeatureVector(m.atoms[k])],
          edge_index |-> Transpose(EdgesList(m.bonds)),
          edge_attr  |-> EdgeFeaturesList(m.bonds),
          pos        |-> m.conf,
          z          |-> [k \in 1..Len(m.atoms) |-> GetAtomicNum(m.atoms[k])]]
    ELSE NoGraph("None")

-----------------------------------------------------------------------------
(* src/utils/loader.py : CarbonDatasetBuilder.get_carbon_shift *)

\* str.split(sep) on a token sequence: k separators give k+1 parts.
RECURSIVE Split(_, _)
Split(s, sep) ==
    IF \A k \in 1..Len(s) : s[k] # sep THEN <<s>>
    ELSE LET k == CHOOSE k \in 1..Len(s) :
                      s[k] = sep /\ \A h \in 1..(k - 1) : s[h] # sep
         IN  <<SubSeq(s, 1, k - 1)>> \o Split(SubSeq(s, k + 1, Len(s)), sep)

\* float(field) on the field texts that occur; anything else is a ValueError.
ParseFloat(field) ==
    IF Len(field) # 1 THEN [ok |-> FALSE, v |-> Num(0)]
    ELSE CASE field[1] = "0" -> [ok |-> TRUE, v |-> Num(0)]
           [] field[1] = "1" -> [ok |-> TRUE, v |-> Num(4)]
           [] field[1] = "2" -> [ok |-> TRUE, v |-> Num(8)]
           [] field[1] = "7" -> [ok |-> TRUE, v |-> Num(28)]
           [] field[1] = "1.5" -> [ok |-> TRUE, v |-> Num(6)]
           [] field[1] = "nan" -> [ok |-> TRUE, v |-> NaN]
           [] OTHER -> [ok |-> FALSE, v |-> Num(0)]

\* int(field) on the same texts
ParseInt(field) ==
    IF Len(field) # 1 THEN [ok |-> FALSE, n |-> 0]
    ELSE CASE field[1] = "0" -> [ok |-> TRUE, n |-> 0]
           [] field[1] = "1" -> [ok |-> TRUE, n |-> 1]
           [] field[1] = "2" -> [ok |-> TRUE, n |-> 2]
           [] field[1] = "7" -> [ok |-> TRUE, n |-> 7]
           [] OTHER -> [ok |-> FALSE, n |-> 0]

\* key.startswith('Spectrum 13C')
StartsWithSpectrum13C(key) ==
    Len(key) >= 2 /\ key[1] = "Spectrum" /\ key[2] = "13C"

\* The groups the two nested for-loops visit, in order:
\* mol_props[key].split('|')[:-1] for every matching key.
RECURSIVE ShiftGroups(_)
ShiftGroups(props) ==
    IF props = <<>> THEN <<>>
    ELSE (IF StartsWithSpectrum13C(Head(props).key)
          THEN PySlice(Split(Head(props).value, "|"), 0, -1)
          ELSE <<>>) \o ShiftGroups(Tail(props))

DictKeys(d) == {d[k].idx : k \in 1..Len(d)}

DictPos(d, idx) == CHOOSE k \in 1..Len(d) : d[k].idx = idx

\* if shift_idx not in atom_shifts: atom_shifts[shift_idx] = []
\* atom_shifts[shift_idx].append(shift_value)
AppendShift(d, idx, v) ==
    IF idx \in DictKeys(d)
    THEN [d EXCEPT ![DictPos(d, idx)].obs = Append(@, v)]
    ELSE Append(d, [idx |-> idx, obs |-> <<v>>])

\* The body of the inner loop over the groups; a failed unpacking or
\* conversion leaves the function with a ValueError.
RECURSIVE CollectShifts(_, _)
CollectShifts(groups, d) ==
    IF groups = <<>> THEN [exc |-> FALSE, d |-> d]
    ELSE LET fields == Split(Head(groups), ";")
         IN  IF Len(fields) # 3 THEN [exc |-> TRUE, d |-> <<>>]
             ELSE LET shift_value == ParseFloat(fields[1])
                      shift_idx   == ParseInt(fields[3])
                  IN  IF ~shift_value.ok \/ ~shift_idx.ok
                      THEN [exc |-> TRUE, d |-> <<>>]
                      ELSE CollectShifts(Tail(groups),
                                         AppendShift(d, shift_idx.n, shift_value.v))

LessThan(a, b) == a < b

\* np.median of a non-empty list of floats
Median(obs) ==
    IF \E k \in 1..Len(obs) : obs[k].nan THEN NaN
    ELSE LET s == SortSeq([k \in 1..Len(obs) |-> obs[k].q], LessThan)
             n == Len(s)
         IN  IF n % 2 = 1 THEN Num(s[(n + 1) \div 2])
             ELSE Num((s[n \div 2] + s[(n \div 2) + 1]) \div 2)

\* for j in range(mol.GetNumAtoms()): if j in atom_shifts: ... = np.median(...)
\* Entries whose key is no atom index keep their list.
ReduceShifts(d, natoms) ==
    [k \in 1..Len(d) |->
        IF d[k].idx \in 0..(natoms - 1)
        THEN [idx |-> d[k].idx, kind |-> "float", obs |-> <<>>, v |-> Median(d[k].obs)]
        ELSE [idx |-> d[k].idx, kind |-> "list", obs |-> d[k].obs, v |-> Num(0)]]

NoShifts(status) == [status |-> status, d |-> <<>>]

get_carbon_shift(m) ==
    LET c == CollectShifts(ShiftGroups(m.props), <<>>)
    IN  IF c.exc THEN NoShifts("ValueError")
        ELSE [status |-> "dict", d |-> ReduceShifts(c.d, GetNumAtoms(m))]

-----------------------------------------------------------------------------
(* src/utils/loader.py : CarbonDatasetBuilder.process, the loop body *)

\* str(x) of a float (or of the int 0): its decimal text, or "nan"
Str(v) == IF v.nan THEN [text |-> "nan", q |-> 0] ELSE [text |-> "decimal", q |-> v.q]

\* ast.literal_eval(text): the number a decimal text denotes; "nan" is a
\* name, not a literal, and raises ValueError
LiteralEval(t) ==
    IF t.text = "decimal" THEN [ok |-> TRUE, v |-> Num(t.q)]
    ELSE [ok |-> FALSE, v |-> Num(0)]

\* i in atom_shifts
InShifts(d, i) == \E k \in 1..Len(d) : d[k].idx = i

\* atom_shifts[i]
ShiftAt(d, i) == d[CHOOSE k \in 1..Len(d) : d[k].idx = i]

AtomProps_MaskAlways(m, d) ==
    [k \in 1..Len(m.atoms) |->
        IF InShifts(d, k - 1)
        THEN [shift |-> Str(ShiftAt(d, k - 1).v), mask |-> TRUE]
        ELSE [shift |-> Str(Num(0)), mask |-> TRUE]]

\* The loop over enumerate(mol.GetAtoms()) setting the 'shift' and 'mask'
\* properties of every atom.
AtomProps(m, d) ==
    [k \in 1..Len(m.atoms) |->
        IF InShifts(d, k - 1)
        THEN [shift |-> Str(ShiftAt(d, k - 1).v), mask |-> TRUE]
        ELSE [shift |-> Str(Num(0)), mask |-> FALSE]]

\* shift = np.array([ast.literal_eval(atom.GetProp('shift')) ...])
ShiftArray(props) ==
    IF \E k \in 1..Len(props) : ~LiteralEval(props[k].shift).ok
    THEN [ok |-> FALSE, a |-> <<>>]
    ELSE [ok |-> TRUE, a |-> [k \in 1..Len(props) |-> LiteralEval(props[k].shift).v]]

\* mask = np.array([atom.GetBoolProp('mask') ...])
MaskArray(props) == [k \in 1..Len(props) |-> props[k].mask]

\* graph.number_of_nodes()
NumberOfNodes(g) == Len(g.x)

\* shift.shape[0] != mask.shape[0] != graph.number_of_nodes(), a chained
\* comparison: (a != b) and (b != c)
ChainedMismatch(a, b, c) == a # b /\ b # c

\* Lines 179-185: the check on the arrays sh and mk built for a molecule
\* whose graph is g and whose shift map is a.  A mismatch leaves the
\* iteration; otherwise the three appends follow.
ConsistencyCheck(g, a, sh, mk) ==
    IF ChainedMismatch(Len(sh), Len(mk), NumberOfNodes(g))
    THEN [outcome |-> "skip_mismatch", graph |-> g, atom_shifts |-> a,
          shift |-> sh, mask |-> mk]
    ELSE [outcome |-> "accept", graph |-> g, atom_shifts |-> a,
          shift |-> sh, mask |-> mk]

\* One pass through the loop body for molecule m.  prev_graph and
\* prev_shifts are the values the locals graph and atom_shifts hold from the
\* iterations before; a pass that leaves early does not assign them.
ProcessBody(m, prev_graph, prev_shifts) ==
    IF m.isNone
    THEN [outcome |-> "skip_none", graph |-> prev_graph,
          atom_shifts |-> prev_shifts, shift |-> <<>>, mask |-> <<>>]
    ELSE LET g == mol2graph(m)
         IN  IF g.status = "None"
             THEN [outcome |-> "skip_graph", graph |-> g,
                   atom_shifts |-> prev_shifts, shift |-> <<>>, mask |-> <<>>]
             ELSE LET a == get_carbon_shift(m)
                  IN  IF a.status = "ValueError"
                      THEN [outcome |-> "ValueError", graph |-> g,
                            atom_shifts |-> prev_shifts, shift |-> <<>>,
                            mask |-> <<>>]
                      ELSE IF Len(a.d) = 0
                      THEN [outcome |-> "skip_shifts", graph |-> g,
                            atom_shifts |-> a, shift |-> <<>>, mask |-> <<>>]
                      ELSE LET props == AtomProps(m, a.d)
                               sh    == ShiftArray(props)
                               mk    == MaskArray(props)
                           IN  IF ~sh.ok
                               THEN [outcome |-> "ValueError", graph |-> g,
                                     atom_shifts |-> a, shift |-> <<>>,
                                     mask |-> <<>>]
                               ELSE ConsistencyCheck(g, a, sh.a, mk)

GraphListAfter_BeforeChecks(list, step) ==
    IF step.outcome \in {"accept", "skip_shifts", "skip_mismatch"}
    THEN Append(list, step.graph) ELSE list

\* graph_list.append(graph), reached by an accepted molecule only
GraphListAfter(list, step) ==
    IF step.outcome = "accept" THEN Append(list, step.graph) ELSE list

\* label_list.append(shift)
LabelListAfter(list, step) ==
    IF step.outcome = "accept" THEN Append(list, step.shift) ELSE list

\* mask_list.append(mask)
MaskListAfter(list, step) ==
    IF step.outcome = "accept" THEN Append(list, step.mask) ELSE list

-----------------------------------------------------------------------------
(* The processed file and the dataset *)

NoFile == [exists |-> FALSE, graph_list |-> <<>>, label_list |-> <<>>,
           mask_list |-> <<>>, data_list |-> <<>>]

\* torch.save({'graph_list': ..., 'label_list': ..., 'mask_list': ...}, path)
SavedDict(gl, ll, ml) ==
    [exists |-> TRUE, graph_list |-> gl, label_list |-> ll, mask_list |-> ml,
     data_list |-> <<>>]

NoReturn(kind) == [kind |-> kind, graphs |-> <<>>, labels |-> <<>>, masks |-> <<>>]

\* ChemicalShiftDataset(graph_list, label_list, mask_list), with its assert
ChemicalShiftDataset(gl, ll, ml) ==
    IF Len(gl) = Len(ll) /\ Len(ll) = Len(ml)
    THEN [kind |-> "dataset", graphs |-> gl, labels |-> ll, masks |-> ml]
    ELSE NoReturn("AssertionError")

\* torch.load(self.processed_paths) followed by the dataset construction
LoadDataset(file) ==
    ChemicalShiftDataset(file.graph_list, file.label_list, file.mask_list)

NeedsProcess_Always(file) == TRUE

\* not os.path.exists(self.processed_paths)
NeedsProcess(file) == ~file.exists

-----------------------------------------------------------------------------
(* src/loader/carbon.py : CarbonDataset.process, the loop body.  The four  *)
(* helpers it imports from loader.process are described by their contracts *)
(* (Element Filter, Spectrum Extractor, Graph Builder).                     *)

AllowedElements == {"H", "B", "C", "O", "N", "F", "Si", "P", "S", "Cl", "Br", "I"}

\* is_valid_molecule(mol): a parsed molecule all of whose atoms are allowed
is_valid_molecule(m) ==
    ~m.isNone /\ \A k \in 1..Len(m.atoms) : m.atoms[k] \in AllowedElements

\* mol_to_coords(mol): the 3D coordinates, None without a usable 3D conformer
mol_to_coords(m) ==
    IF m.conf = "3D" THEN [status |-> "coords", pos |-> m.conf]
    ELSE [status |-> "None", pos |-> m.conf]

\* extract_carbon_shift(mol): atom index -> median of its observations
extract_carbon_shift(m) ==
    LET c == CollectShifts(ShiftGroups(m.props), <<>>)
    IN  IF c.exc THEN NoShifts("ValueError")
        ELSE [status |-> "dict",
              d |-> [k \in 1..Len(c.d) |->
                        [idx |-> c.d[k].idx, kind |-> "float", obs |-> <<>>,
                         v |-> Median(c.d[k].obs)]]]

\* mol_to_graph(mol): the graph as a dictionary; no graph without bonds
mol_to_graph(m) ==
    IF Len(m.bonds) > 0
    THEN [status     |-> "graph",
          num_nodes  |-> Len(m.atoms),
          edge_index |-> Transpose(EdgesList(m.bonds)),
          edge_feat  |-> EdgeFeaturesList(m.bonds),
          node_feat  |-> [k \in 1..Len(m.atoms) |-> AtomToFeatureVector(m.atoms[k])]]
    ELSE [status |-> "None", num_nodes |-> 0, edge_index |-> <<<<>>, <<>>>>,
          edge_feat |-> <<>>, node_feat |-> <<>>]

\* The loop over enumerate(mol.GetAtoms()) in CarbonDataset.process
CarbonAtomProps(m, d) ==
    [k \in 1..Len(m.atoms) |->
        IF InShifts(d, k - 1)
        THEN [shift |-> Str(ShiftAt(d, k - 1).v), mask |-> TRUE]
        ELSE [shift |-> Str(Num(0)), mask |-> FALSE]]

NoData == [num_nodes |-> 0, edge_index |-> <<<<>>, <<>>>>, edge_attr |-> <<>>,
           x |-> <<>>, mask |-> <<>>, y |-> <<>>, z |-> <<>>, pos |-> "3D"]

\* One pass through the loop body of CarbonDataset.process for molecule m.
CarbonBody(m, prev_shifts) ==
    IF ~is_valid_molecule(m)
    THEN [outcome |-> "skip_invalid", carbon_shifts |-> prev_shifts, data |-> NoData]
    ELSE IF mol_to_coords(m).status = "None"
    THEN [outcome |-> "skip_coords", carbon_shifts |-> prev_shifts, data |-> NoData]
    ELSE LET a == extract_carbon_shift(m)
         IN  IF a.status = "ValueError"
             THEN [outcome |-> "ValueError", carbon_shifts |-> prev_shifts,
                   data |-> NoData]
             ELSE LET props == CarbonAtomProps(m, a.d)
                      g     == mol_to_graph(m)
                      sh    == ShiftArray(props)
                  IN  IF g.status = "None"
                      THEN [outcome |-> "TypeError", carbon_shifts |-> a,
                            data |-> NoData]
                      ELSE IF ~sh.ok
                      THEN [outcome |-> "ValueError", carbon_shifts |-> a,
                            data |-> NoData]
                      ELSE [outcome |-> "accept", carbon_shifts |-> a,
                            data |-> [num_nodes  |-> g.num_nodes,
                                      edge_index |-> g.edge_index,
                                      edge_attr  |-> g.edge_feat,
                                      x          |-> g.node_feat,
                                      mask       |-> MaskArray(props),
                                      y          |-> sh.a,
                                      z          |-> [k \in 1..Len(m.atoms) |->
                                                         GetAtomicNum(m.atoms[k])],
                                      pos        |-> mol_to_coords(m).pos]]

\* torch.save(self.collate(data_list), self.processed_paths[0])
SavedData(dl) ==
    [exists |-> TRUE, graph_list |-> <<>>, label_list |-> <<>>, mask_list |-> <<>>,
     data_list |-> dl]

-----------------------------------------------------------------------------
(* Input molecules *)

Carbons(n) == [k \in 1..n |-> "C"]

BondRec(i, j, type) ==
    [i |-> i, j |-> j, type |-> type, stereo |-> "STEREONONE", conj |-> FALSE]

BondsOn(n) ==
    {BondRec(i, j, t) : i \in 0..(n - 1), j \in 0..(n - 1), t \in {"SINGLE", "DOUBLE"}}

\* A molecule has no loop bond and at most one bond between two atoms.
ValidBonds(bs) ==
    /\ \A k \in 1..Len(bs) : bs[k].i # bs[k].j
    /\ \A k, h \in 1..Len(bs) :
           k # h => {bs[k].i, bs[k].j} # {bs[h].i, bs[h].j}

BondLists(n) ==
    {bs \in UNION {[1..m -> BondsOn(n)] : m \in 0..MaxBonds} : ValidBonds(bs)}

GraphInputs ==
    UNION {{Mol(Carbons(n), bs, "3D", <<>>) : bs \in BondLists(n)} : n \in 1..MaxAtoms}

K13C0 == <<"Spectrum", "13C", "0">>

K13C1 == <<"Spectrum", "13C", "1">>

K1H0 == <<"Spectrum", "1H", "0">>

Group(fields) ==
    IF fields = <<>> THEN <<>>
    ELSE LET RECURSIVE Join(_)
             Join(fs) == IF Len(fs) = 1 THEN <<fs[1]>>
                         ELSE <<fs[1], ";">> \o Join(Tail(fs))
         IN  Join(fields)

\* "<float>;<ignored>;<int>" with the atom index of a real atom (0, 1) or of
\* no atom of any molecule here (7)
WellFormedGroups ==
    {Group(<<v, "X", i>>) : v \in {"1", "2"}, i \in {"0", "1", "7"}}

\* two fields, four fields, a non-numeric value, a non-integer index
MalformedGroups ==
    {Group(<<"1", "X">>), Group(<<"1", "X", "0", "0">>),
     Group(<<"X", "X", "0">>), Group(<<"1", "X", "1.5">>)}

Groups == WellFormedGroups \cup {Group(<<"nan", "X", "0">>)} \cup MalformedGroups

Observations == [key : {K13C0, K13C1, K1H0}, group : Groups]

ObsLists == UNION {[1..m -> Observations] : m \in 0..MaxObs}

\* The keys of an observation list in order of first appearance.
RECURSIVE KeysOf(_, _)
KeysOf(obs, seen) ==
    IF obs = <<>> THEN <<>>
    ELSE IF Head(obs).key \in seen THEN KeysOf(Tail(obs), seen)
    ELSE <<Head(obs).key>> \o KeysOf(Tail(obs), seen \cup {Head(obs).key})

\* The value of one property: its groups, each followed by "|".
RECURSIVE ValueOf(_, _)
ValueOf(obs, key) ==
    IF obs = <<>> THEN <<>>
    ELSE (IF Head(obs).key = key THEN Head(obs).group \o <<"|">> ELSE <<>>)
             \o ValueOf(Tail(obs), key)

PropsOf(obs) ==
    LET keys == KeysOf(obs, {})
    IN  [k \in 1..Len(keys) |-> [key |-> keys[k], value |-> ValueOf(obs, keys[k])]]

ShiftInputs ==
    {Mol(Carbons(n), <<>>, "3D", PropsOf(o)) : n \in 1..MaxAtoms, o \in ObsLists}

Obs(key, fields) == [key |-> key, group |-> Group(fields)]

UnterminatedProps ==
    LET p == [key |-> K13C0, value |-> Group(<<"1", "X", "0">>)] IN <<p>>

\* The annotation blocks of the raw files fed to process(): none; one
\* observation; two observations of one atom; one observation each of two
\* atoms in two properties; an index that is no atom; a 1H block only; a
\* group of two fields; a non-numeric value; a nan value; a value whose last
\* group lacks the closing "|".
SampleProps ==
    {<<>>,
     PropsOf(<<Obs(K13C0, <<"1", "X", "0">>)>>),
     PropsOf(<<Obs(K13C0, <<"1", "X", "0">>), Obs(K13C0, <<"2", "X", "0">>)>>),
     PropsOf(<<Obs(K13C0, <<"1", "X", "0">>), Obs(K13C1, <<"2", "X", "1">>)>>),
     PropsOf(<<Obs(K13C0, <<"1", "X", "7">>)>>),
     PropsOf(<<Obs(K1H0, <<"1", "X", "0">>)>>),
     PropsOf(<<Obs(K13C0, <<"1", "X">>)>>),
     PropsOf(<<Obs(K13C0, <<"X", "X", "0">>)>>),
     PropsOf(<<Obs(K13C0, <<"nan", "X", "0">>)>>),
     UnterminatedProps}

\* The molecules of the raw files: an unparsable record; C=O with each of
\* the annotation blocks; a lone atom and an unbonded pair, annotated well
\* and badly; C=O with a flat (2D) conformer; C=Se.
SampleMols ==
    {NoneMol}
        \cup {Mol(<<"C", "O">>, <<BondRec(0, 1, "DOUBLE")>>, "3D", ps) :
                  ps \in SampleProps}
        \cup {Mol(atoms, <<>>, "3D", ps) :
                  atoms \in {<<"C">>, <<"C", "O">>},
                  ps \in {PropsOf(<<Obs(K13C0, <<"1", "X", "0">>)>>),
                          PropsOf(<<Obs(K13C0, <<"1", "X">>)>>)}}
        \cup {Mol(<<"C", "O">>, <<BondRec(1, 0, "DOUBLE")>>, "2D",
                  PropsOf(<<Obs(K13C0, <<"2", "X", "1">>)>>)),
              Mol(<<"C", "Se">>, <<BondRec(0, 1, "DOUBLE")>>, "3D",
                  PropsOf(<<Obs(K13C0, <<"2", "X", "0">>)>>))}

LoaderIdle ==
    /\ obj = "CarbonDatasetBuilder"
    /\ raw_exists = FALSE
    /\ processed = NoFile
    /\ pc = "idle"
    /\ suppl = <<>>
    /\ graph_list = <<>>
    /\ label_list = <<>>
    /\ mask_list = <<>>
    /\ data_list = <<>>
    /\ outcome = "none"
    /\ ret = NoReturn("unset")
    /\ log = "none"

MolIdle ==
    /\ mol = NoneMol
    /\ graph = NoGraph("unset")
    /\ atom_shifts = NoShifts("unset")
    /\ shift = <<>>
    /\ mask = <<>>

-----------------------------------------------------------------------------
(* train_val_test_split applied to every argument tuple within the bounds *)

InitSplit ==
    /\ MolIdle
    /\ LoaderIdle
    /\ split_in \in [dset_len : 0..MaxN, train_size : SizeArgs,
                     val_size : SizeArgs, test_size : SizeArgs,
                     seed : 0..MaxSeed]
    /\ split_loc = NoLocals
    /\ split_out = NoOutput

NextSplit == TrainValTestSplit

SpecSplit == InitSplit /\ [][NextSplit]_vars

-----------------------------------------------------------------------------
(* mol2graph applied to every molecule of GraphInputs *)

InitGraph ==
    /\ SplitIdle
    /\ LoaderIdle
    /\ mol \in GraphInputs
    /\ graph = NoGraph("unset")
    /\ atom_shifts = NoShifts("unset")
    /\ shift = <<>>
    /\ mask = <<>>

CallMol2Graph ==
    /\ graph.status = "unset"
    /\ graph' = mol2graph(mol)
    /\ UNCHANGED <<split_vars, mol, atom_shifts, shift, mask, file_vars,
                   loop_vars>>

NextGraph == CallMol2Graph

SpecGraph == InitGraph /\ [][NextGraph]_vars

-----------------------------------------------------------------------------
(* get_carbon_shift applied to every molecule of ShiftInputs *)

InitShift ==
    /\ SplitIdle
    /\ LoaderIdle
    /\ mol \in ShiftInputs
    /\ graph = NoGraph("unset")
    /\ atom_shifts = NoShifts("unset")
    /\ shift = <<>>
    /\ mask = <<>>

CallGetCarbonShift ==
    /\ atom_shifts.status = "unset"
    /\ atom_shifts' = get_carbon_shift(mol)
    /\ UNCHANGED <<split_vars, mol, graph, shift, mask, file_vars, loop_vars>>

NextShift == CallGetCarbonShift

SpecShift == InitShift /\ [][NextShift]_vars

-----------------------------------------------------------------------------
(* The consistency check of process() and the appends behind it, applied to *)
(* every label array, mask array and graph within the bounds               *)

\* numpy arrays of 0..MaxAtoms labels (0.0 or 1.0)
LabelArrays == UNION {[1..n -> {Num(0), Num(4)}] : n \in 0..MaxAtoms}

\* numpy arrays of 0..MaxAtoms booleans
MaskArrays == UNION {[1..n -> BOOLEAN] : n \in 0..MaxAtoms}

\* The graphs mol2graph builds of 2..MaxAtoms atoms, the first two bonded;
\* a graph at line 179 is never None.
CheckGraphs ==
    {mol2graph(Mol(Carbons(n), <<BondRec(0, 1, "SINGLE")>>, "3D", <<>>)) :
         n \in 2..MaxAtoms}

InitCheck ==
    /\ SplitIdle
    /\ mol = NoneMol
    /\ atom_shifts = NoShifts("unset")
    /\ graph \in CheckGraphs
    /\ shift \in LabelArrays
    /\ mask \in MaskArrays
    /\ obj = "CarbonDatasetBuilder"
    /\ raw_exists = TRUE
    /\ processed = NoFile
    /\ pc = "process"
    /\ suppl = <<>>
    /\ graph_list = <<>>
    /\ label_list = <<>>
    /\ mask_list = <<>>
    /\ data_list = <<>>
    /\ outcome = "none"
    /\ ret = NoReturn("running")
    /\ log = "The processed data does not exist. Processing the raw data..."

\* Lines 179-185 on the locals graph, shift and mask.
CheckAndAppend ==
    /\ pc = "process"
    /\ outcome = "none"
    /\ LET step == ConsistencyCheck(graph, atom_shifts, shift, mask)
       IN  /\ outcome' = step.outcome
           /\ graph_list' = GraphListAfter(graph_list, step)
           /\ label_list' = LabelListAfter(label_list, step)
           /\ mask_list' = MaskListAfter(mask_list, step)
    /\ UNCHANGED <<split_vars, mol_vars, file_vars, pc, suppl, data_list,
                   ret, log>>

NextCheck == CheckAndAppend

SpecCheck == InitCheck /\ [][NextCheck]_vars

-----------------------------------------------------------------------------
(* The loaders at work on one dataset root *)

Init ==
    /\ SplitIdle
    /\ MolIdle
    /\ obj \in {"CarbonDatasetBuilder", "CarbonDataset"}
    /\ raw_exists = FALSE
    /\ processed = NoFile
    /\ pc = "idle"
    /\ suppl = <<>>
    /\ graph_list = <<>>
    /\ label_list = <<>>
    /\ mask_list = <<>>
    /\ data_list = <<>>
    /\ outcome = "none"
    /\ ret = NoReturn("unset")
    /\ log = "none"

\* Somebody writes or replaces raw/carbon_dataset.sdf.  The file holds up to
\* MaxMols records of SampleMols; which ones shows as process() iterates.
WriteRaw ==
    /\ pc = "idle"
    /\ raw_exists' = TRUE
    /\ UNCHANGED <<split_vars, mol_vars, obj, processed, loop_vars>>

RemoveRaw ==
    /\ pc = "idle"
    /\ raw_exists
    /\ raw_exists' = FALSE
    /\ UNCHANGED <<split_vars, mol_vars, obj, processed, loop_vars>>

\* The manual deletion of the cache.
RemoveProcessed ==
    /\ pc = "idle"
    /\ processed.exists
    /\ processed' = NoFile
    /\ UNCHANGED <<split_vars, mol_vars, obj, raw_exists, loop_vars>>

\* CarbonDatasetBuilder.build(), up to its return or, when the processed
\* file is missing, up to the head of the loop of process().
Build ==
    /\ pc = "idle"
    /\ obj = "CarbonDatasetBuilder"
    /\ IF ~raw_exists
       THEN /\ ret' = NoReturn("None")
            /\ log' = "The raw data does not exist."
            /\ UNCHANGED <<pc, suppl, graph_list, label_list, mask_list,
                           data_list, outcome, mol_vars>>
       ELSE IF NeedsProcess(processed)
       THEN /\ pc' = "process"
            /\ suppl' = <<>>
            /\ graph_list' = <<>>
            /\ label_list' = <<>>
            /\ mask_list' = <<>>
            /\ outcome' = "none"
            /\ ret' = NoReturn("running")
            /\ log' = "The processed data does not exist. Processing the raw data..."
            /\ mol' = NoneMol
            /\ graph' = NoGraph("unset")
            /\ atom_shifts' = NoShifts("unset")
            /\ shift' = <<>>
            /\ mask' = <<>>
            /\ UNCHANGED data_list
       ELSE /\ ret' = LoadDataset(processed)
            /\ log' = "The processed data already exists. Loading the processed data..."
            /\ UNCHANGED <<pc, suppl, graph_list, label_list, mask_list,
                           data_list, outcome, mol_vars>>
    /\ UNCHANGED <<split_vars, file_vars>>

\* One iteration of "for mol in suppl" in CarbonDatasetBuilder.process, on
\* the next record m of the file.  An exception leaves process() and build()
\* at once.  The locals shift and mask keep their former arrays through an
\* iteration that leaves before line 176.
ProcessMol ==
    /\ pc = "process"
    /\ Len(suppl) < MaxMols
    /\ \E m \in SampleMols :
           LET step == ProcessBody(m, graph, atom_shifts)
           IN  /\ suppl' = Append(suppl, m)
               /\ mol' = m
               /\ graph' = step.graph
               /\ atom_shifts' = step.atom_shifts
               /\ shift' = IF step.outcome \in {"accept", "skip_mismatch"}
                           THEN step.shift ELSE shift
               /\ mask' = IF step.outcome \in {"accept", "skip_mismatch"}
                          THEN step.mask ELSE mask
               /\ outcome' = step.outcome
               /\ graph_list' = GraphListAfter(graph_list, step)
               /\ label_list' = LabelListAfter(label_list, step)
               /\ mask_list' = MaskListAfter(mask_list, step)
               /\ IF step.outcome = "ValueError"
                  THEN pc' = "idle" /\ ret' = NoReturn("ValueError")
                  ELSE UNCHANGED <<pc, ret>>
    /\ UNCHANGED <<split_vars, file_vars, data_list, log>>

\* The supplier is exhausted and process() ends: the dictionary is saved;
\* build() then loads it and returns the dataset.
ProcessSave ==
    /\ pc = "process"
    /\ processed' = SavedDict(graph_list, label_list, mask_list)
    /\ ret' = LoadDataset(processed')
    /\ pc' = "idle"
    /\ UNCHANGED <<split_vars, mol_vars, obj, raw_exists, suppl,
                   graph_list, label_list, mask_list, data_list, outcome, log>>

\* CarbonDataset(root): with no processed file the constructor runs
\* process(), here up to the head of its loop.
CarbonProcessStart ==
    /\ pc = "idle"
    /\ obj = "CarbonDataset"
    /\ raw_exists
    /\ ~processed.exists
    /\ pc' = "carbon_process"
    /\ suppl' = <<>>
    /\ data_list' = <<>>
    /\ outcome' = "none"
    /\ mol' = NoneMol
    /\ atom_shifts' = NoShifts("unset")
    /\ shift' = <<>>
    /\ mask' = <<>>
    /\ UNCHANGED <<split_vars, file_vars, graph, graph_list, label_list,
                   mask_list, ret, log>>

\* One iteration of "for mol in suppl" in CarbonDataset.process; atom_shifts
\* holds the local carbon_shifts.
CarbonProcessMol ==
    /\ pc = "carbon_process"
    /\ Len(suppl) < MaxMols
    /\ \E m \in SampleMols :
           LET step == CarbonBody(m, atom_shifts)
           IN  /\ suppl' = Append(suppl, m)
               /\ mol' = m
               /\ atom_shifts' = step.carbon_shifts
               /\ shift' = IF step.outcome = "accept" THEN step.data.y ELSE shift
               /\ mask' = IF step.outcome = "accept" THEN step.data.mask ELSE mask
               /\ outcome' = step.outcome
               /\ data_list' = IF step.outcome = "accept"
                               THEN Append(data_list, step.data) ELSE data_list
               /\ pc' = IF step.outcome \in {"ValueError", "TypeError"}
                        THEN "idle" ELSE pc
    /\ UNCHANGED <<split_vars, file_vars, graph, graph_list, label_list,
                   mask_list, ret, log>>

\* The end of CarbonDataset.process (pre_filter and pre_transform are None).
CarbonProcessSave ==
    /\ pc = "carbon_process"
    /\ processed' = SavedData(data_list)
    /\ pc' = "idle"
    /\ UNCHANGED <<split_vars, mol_vars, obj, raw_exists, suppl, graph_list,
                   label_list, mask_list, data_list, outcome, ret, log>>

Next ==
    \/ WriteRaw
    \/ RemoveRaw
    \/ RemoveProcessed
    \/ Build
    \/ ProcessMol
    \/ ProcessSave
    \/ CarbonProcessStart
    \/ CarbonProcessMol
    \/ CarbonProcessSave

Spec == Init /\ [][Next]_vars

-----------------------------------------------------------------------------
(* Properties of train_val_test_split *)

Returned == split_out.status = "returned"

IdxAll == split_out.idx_train \o split_out.idx_val \o split_out.idx_test

\* C1: whenever train_val_test_split returns, the three index arrays together
\* hold at most dset_len indices, no index occurs twice (neither inside one
\* array nor in two of them), and every index lies in 0..dset_len-1.
C1_SplitDisjointInRange ==
    Returned =>
        /\ Len(split_out.idx_train) + Len(split_out.idx_val)
               + Len(split_out.idx_test) <= split_in.dset_len
        /\ \A p, q \in 1..Len(IdxAll) : p # q => IdxAll[p] # IdxAll[q]
        /\ Range(split_out.idx_train) \cap Range(split_out.idx_val) = {}
        /\ Range(split_out.idx_train) \cap Range(split_out.idx_test) = {}
        /\ Range(split_out.idx_val) \cap Range(split_out.idx_test) = {}
        /\ \A p \in 1..Len(IdxAll) :
               IdxAll[p] >= 0 /\ IdxAll[p] <= split_in.dset_len - 1

\* A call that returned three non-empty arrays from a shuffled index list.
C1_Witness ==
    /\ Returned
    /\ split_out.idx_train # <<>>
    /\ split_out.idx_val # <<>>
    /\ split_out.idx_test # <<>>
    /\ IdxAll # Arange(split_in.dset_len)

UnsetArgs ==
    {f \in {"train_size", "val_size", "test_size"} : split_in[f].kind = "None"}

ResolvedInvalid ==
    \/ \E k \in 1..3 : split_loc.counts[k] < 0
    \/ SeqSum(split_loc.counts) > split_in.dset_len

\* C5: a finished call has failed (and produced no index arrays) exactly when
\* more than one size was unset, or a resolved count is negative, or the
\* resolved counts add up to more than dset_len; it has returned exactly when
\* at most one size was unset, all resolved counts are >= 0 and their sum is
\* at most dset_len.
C5_FatalIffInvalid ==
    split_out.status # "pending" =>
        /\ split_out.status \in {"returned", "AssertionError"}
        /\ split_out.status = "AssertionError"
               <=> (Cardinality(UnsetArgs) > 1 \/ ResolvedInvalid)
        /\ split_out.status = "AssertionError" => IdxAll = <<>>
        /\ Returned =>
               /\ split_loc.defined
               /\ \A k \in 1..3 : split_loc.counts[k] >= 0
               /\ SeqSum(split_loc.counts) <= split_in.dset_len
               /\ Len(split_out.idx_train) = split_loc.counts[1]
               /\ Len(split_out.idx_val) = split_loc.counts[2]
               /\ Len(split_out.idx_test) = split_loc.counts[3]

\* A call that failed only because the non-negative counts exceed dset_len.
C5_Witness ==
    /\ split_out.status = "AssertionError"
    /\ Cardinality(UnsetArgs) = 0
    /\ \A k \in 1..3 : split_loc.counts[k] >= 0
    /\ SeqSum(split_loc.counts) > split_in.dset_len

Dec(counts, k) == [counts EXCEPT ![k] = @ - 1]

\* C10: when the counts resolved before compensation add up to more than
\* dset_len, exactly one of them is lowered by one: test if test_size was a
\* float, else val if val_size was a float, else train if train_size was a
\* float; in every other case the counts are left as they were.
C10_Compensation ==
    split_loc.defined =>
        LET over == SeqSum(split_loc.pre) > split_in.dset_len
        IN  split_loc.counts =
                IF over /\ split_in.test_size.kind = "float"
                    THEN Dec(split_loc.pre, 3)
                ELSE IF over /\ split_in.val_size.kind = "float"
                    THEN Dec(split_loc.pre, 2)
                ELSE IF over /\ split_in.train_size.kind = "float"
                    THEN Dec(split_loc.pre, 1)
                ELSE split_loc.pre

\* A returning call in which all three sizes are floats and rounding drift was
\* taken off the test count.
C10_Witness ==
    /\ Returned
    /\ split_in.train_size.kind = "float"
    /\ split_in.val_size.kind = "float"
    /\ split_in.test_size.kind = "float"
    /\ SeqSum(split_loc.pre) > split_in.dset_len
    /\ split_loc.counts = Dec(split_loc.pre, 3)

-----------------------------------------------------------------------------
(* Properties of mol2graph and get_carbon_shift *)

EdgeColumn(g, c) == <<g.edge_index[1][c], g.edge_index[2][c]>>

\* C7: for a molecule with bonds b_1..b_m (m > 0), mol2graph returns a graph
\* whose edge_index has exactly 2m columns, column 2k-1 being (i_k, j_k) and
\* column 2k being (j_k, i_k), and whose edge_attr has exactly 2m rows, rows
\* 2k-1 and 2k both being the feature vector of b_k (columns and rows counted
\* from 1).
C7_EdgesLockStep ==
    (graph.status # "unset" /\ Len(mol.bonds) > 0) =>
        LET m == Len(mol.bonds)
        IN  /\ graph.status = "graph"
            /\ Len(graph.edge_index) = 2
            /\ Len(graph.edge_index[1]) = 2 * m
            /\ Len(graph.edge_index[2]) = 2 * m
            /\ Len(graph.edge_attr) = 2 * m
            /\ \A k \in 1..m :
                   LET b == mol.bonds[k]
                   IN  /\ EdgeColumn(graph, 2 * k - 1) = <<b.i, b.j>>
                       /\ EdgeColumn(graph, 2 * k) = <<b.j, b.i>>
                       /\ graph.edge_attr[2 * k - 1] = <<b.type, b.stereo, b.conj>>
                       /\ graph.edge_attr[2 * k] = <<b.type, b.stereo, b.conj>>

\* A graph built from two bonds of different type, the second one stored with
\* its higher atom index first.
C7_Witness ==
    /\ graph.status = "graph"
    /\ Len(mol.bonds) = 2
    /\ mol.bonds[1].type # mol.bonds[2].type
    /\ mol.bonds[2].i > mol.bonds[2].j
    /\ Len(graph.edge_attr) = 4

\* The annotation of mol as the input format states it: every property whose
\* key starts with "Spectrum 13C" is a list of groups, each closed by "|" and
\* made of exactly three ";"-separated fields, a decimal number, an ignored
\* text and an integer.
DecimalTexts == {"0", "1", "2", "7", "1.5"}

IntegerTexts == {"0", "1", "2", "7"}

WellFormedValue(value) ==
    /\ value # <<>> => value[Len(value)] = "|"
    /\ \A g \in Range(PySlice(Split(value, "|"), 0, -1)) :
           LET f == Split(g, ";")
           IN  /\ Len(f) = 3
               /\ Len(f[1]) = 1 /\ f[1][1] \in DecimalTexts
               /\ Len(f[3]) = 1 /\ f[3][1] \in IntegerTexts

WellFormedProps(m) ==
    \A k \in 1..Len(m.props) :
        StartsWithSpectrum13C(m.props[k].key) => WellFormedValue(m.props[k].value)

\* The observations of mol, as <<atom index, value>> pairs in file order.
ObservedPairs(m) ==
    LET gs == ShiftGroups(m.props)
    IN  [k \in 1..Len(gs) |->
            LET f == Split(gs[k], ";")
            IN  <<ParseInt(f[3]).n, ParseFloat(f[1]).v.q>>]

\* The r-th smallest entry of a list of numbers.
OrderStat(qs, r) ==
    CHOOSE x \in Range(qs) :
        /\ Cardinality({k \in 1..Len(qs) : qs[k] < x}) < r
        /\ r <= Cardinality({k \in 1..Len(qs) : qs[k] <= x})

IsMedianOf(v, qs) ==
    LET n == Len(qs)
    IN  IF n % 2 = 1 THEN v = OrderStat(qs, (n + 1) \div 2)
        ELSE 2 * v = OrderStat(qs, n \div 2) + OrderStat(qs, (n \div 2) + 1)

\* C6: for a molecule with well-formed 13C annotations get_carbon_shift
\* returns a map whose keys are exactly the atom indices with at least one
\* observation, every key is an atom index 0 <= idx < n_atoms, and every
\* value is one number, the median of all observations tagged with that key.
C6_ShiftMapIsMedianMap ==
    (atom_shifts.status # "unset" /\ WellFormedProps(mol)) =>
        LET pairs == ObservedPairs(mol)
            d     == atom_shifts.d
        IN  /\ atom_shifts.status = "dict"
            /\ {d[k].idx : k \in 1..Len(d)} = {pairs[k][1] : k \in 1..Len(pairs)}
            /\ \A k, h \in 1..Len(d) : k # h => d[k].idx # d[h].idx
            /\ \A k \in 1..Len(d) :
                   /\ 0 <= d[k].idx /\ d[k].idx < GetNumAtoms(mol)
                   /\ d[k].kind = "float"
                   /\ ~d[k].v.nan
                   /\ IsMedianOf(d[k].v.q,
                                 LET mine == SelectSeq(pairs,
                                                 LAMBDA p : p[1] = d[k].idx)
                                 IN  [h \in 1..Len(mine) |-> mine[h][2]])

-----------------------------------------------------------------------------
(* Properties of the loaders *)

Builder == obj = "CarbonDatasetBuilder"

\* The value the extracted map atom_shifts gives for atom i, when it has one.
ExtractedKeys == {atom_shifts.d[k].idx : k \in 1..Len(atom_shifts.d)}

ExtractedAt(i) == atom_shifts.d[CHOOSE k \in 1..Len(atom_shifts.d) :
                                    atom_shifts.d[k].idx = i]

\* label and mask are built over all atoms of mol from the map atom_shifts:
\* both as long as the molecule, mask[i] true exactly at the keys of the map,
\* label[i] the value of the map there and 0 elsewhere.
LabelsFollowMap(label, msk) ==
    /\ Len(label) = Len(mol.atoms)
    /\ Len(msk) = Len(mol.atoms)
    /\ atom_shifts.status = "dict"
    /\ \A i \in 0..(Len(mol.atoms) - 1) :
           /\ msk[i + 1] <=> i \in ExtractedKeys
           /\ msk[i + 1] =>
                  /\ ExtractedAt(i).kind = "float"
                  /\ label[i + 1] = ExtractedAt(i).v
           /\ ~msk[i + 1] => label[i + 1] = Num(0)

\* C2: the example a loop iteration retains (CarbonDatasetBuilder.process
\* and CarbonDataset.process alike) has a label and a mask vector as long as
\* the molecule, mask[i] is true iff i is a key of the extracted shift map,
\* label[i] is the extracted value where mask[i] is true and 0 where it is
\* false; and in every retained example label, mask and graph have the same
\* number of atoms and the label is 0 wherever the mask is false.
C2_LabelMaskAligned ==
    /\ (Builder /\ outcome = "accept") =>
           /\ label_list # <<>> /\ mask_list # <<>>
           /\ LabelsFollowMap(label_list[Len(label_list)], mask_list[Len(mask_list)])
    /\ (~Builder /\ outcome = "accept") =>
           /\ data_list # <<>>
           /\ LabelsFollowMap(data_list[Len(data_list)].y,
                              data_list[Len(data_list)].mask)
    /\ \A k \in 1..Len(label_list) :
           /\ k <= Len(mask_list) /\ k <= Len(graph_list)
           /\ Len(label_list[k]) = Len(mask_list[k])
           /\ Len(label_list[k]) = Len(graph_list[k].x)
           /\ \A i \in 1..Len(label_list[k]) :
                  ~mask_list[k][i] => label_list[k][i] = Num(0)
    /\ \A k \in 1..Len(data_list) :
           /\ Len(data_list[k].y) = data_list[k].num_nodes
           /\ Len(data_list[k].mask) = data_list[k].num_nodes
           /\ \A i \in 1..Len(data_list[k].y) :
                  ~data_list[k].mask[i] => data_list[k].y[i] = Num(0)

\* CarbonDatasetBuilder.process has retained a two-atom molecule with one
\* labelled atom (the median 1.5 of two observations) and one masked-out one.
C2_Witness ==
    /\ Builder
    /\ outcome = "accept"
    /\ processed.exists
    /\ \E k \in 1..Len(processed.label_list) :
           /\ processed.label_list[k] = <<Num(6), Num(0)>>
           /\ processed.mask_list[k] = <<TRUE, FALSE>>

\* A record with nothing wrong: parsed, bonded, with a 3D conformer, with
\* well-formed 13C annotations and at least one observation.
WellFormedRecord(m) ==
    /\ ~m.isNone
    /\ Len(m.bonds) > 0
    /\ m.conf = "3D"
    /\ WellFormedProps(m)
    /\ ShiftGroups(m.props) # <<>>

\* C3: in CarbonDatasetBuilder.process no record makes the run fail: a
\* malformed record is skipped and nothing else, so that the examples
\* retained so far are one per well-formed record read so far, and the run
\* goes on to save the dataset.
C3_MalformedOnlySkipped ==
    Builder =>
        /\ ret.kind # "ValueError"
        /\ pc = "process" =>
               Len(graph_list) =
                   Cardinality({k \in 1..Len(suppl) : WellFormedRecord(suppl[k])})

\* The dataset fields of a return value
SameDataset(r, file) ==
    /\ r.kind = "dataset"
    /\ r.graphs = file.graph_list
    /\ r.labels = file.label_list
    /\ r.masks = file.mask_list

\* C4 as stated: a build() that finds the processed file does not run
\* process, leaves the file as it is and returns the dataset the file holds.
C4_CachedBuildReturnsDataset ==
    [][(processed.exists /\ Build) =>
           /\ pc' = "idle"
           /\ processed' = processed
           /\ SameDataset(ret', processed)]_vars

\* C4, amended: a build() that finds the processed file never runs process
\* and leaves the file as it is; if the raw file exists it returns the
\* dataset the file holds, which is the dataset returned by the build that
\* wrote the file, and otherwise it returns None.  The file, once written,
\* keeps its content until it is deleted.
C4_CachedBuildSkipsProcess ==
    [][/\ (processed.exists /\ Build) =>
              /\ pc' = "idle"
              /\ processed' = processed
              /\ suppl' = suppl
              /\ IF raw_exists THEN SameDataset(ret', processed)
                 ELSE ret' = NoReturn("None")
       /\ (Builder /\ ProcessSave) =>
              /\ processed'.exists
              /\ SameDataset(ret', processed')
       /\ processed.exists => processed' \in {processed, NoFile}]_vars

\* A build() has just loaded a non-empty dataset from the processed file.
C4_Witness ==
    /\ Builder
    /\ pc = "idle"
    /\ log = "The processed data already exists. Loading the processed data..."
    /\ processed.exists
    /\ ret.kind = "dataset"
    /\ ret.graphs # <<>>

\* The increasing list of the members of a set of positions.
RECURSIVE Ascending(_)
Ascending(S) ==
    IF S = {} THEN <<>>
    ELSE LET lo == CHOOSE x \in S : \A y \in S : x <= y
         IN  <<lo>> \o Ascending(S \ {lo})

\* Entry k of the three lists was made from molecule m.
MadeFrom(k, m) ==
    /\ ~m.isNone
    /\ graph_list[k].status = "graph"
    /\ Len(graph_list[k].x) = Len(m.atoms)
    /\ graph_list[k].z = [i \in 1..Len(m.atoms) |-> GetAtomicNum(m.atoms[i])]
    /\ Len(graph_list[k].edge_attr) = 2 * Len(m.bonds)
    /\ graph_list[k].pos = m.conf
    /\ Len(label_list[k]) = Len(m.atoms)
    /\ Len(mask_list[k]) = Len(m.atoms)
    /\ \A i \in 1..Len(m.atoms) :
           mask_list[k][i] <=>
               \E g \in Range(ShiftGroups(m.props)) :
                   ParseInt(Split(g, ";")[3]).n = i - 1

\* C8: graph_list, label_list and mask_list have one length, entry k of
\* each comes from the same molecule, and the molecules of the entries are
\* distinct positions of the input in increasing order; the saved file holds
\* these lists.
C8_OrderPreserved ==
    Builder =>
        /\ Len(graph_list) = Len(label_list)
        /\ Len(label_list) = Len(mask_list)
        /\ \E S \in SUBSET (1..Len(suppl)) :
               /\ Cardinality(S) = Len(graph_list)
               /\ \A k \in 1..Len(graph_list) : MadeFrom(k, suppl[Ascending(S)[k]])
        /\ processed.exists =>
               /\ processed.graph_list = graph_list
               /\ processed.label_list = label_list
               /\ processed.mask_list = mask_list

\* A saved run over two accepted molecules that differ in graph and labels.
C8_Witness ==
    /\ Builder
    /\ processed.exists
    /\ Len(suppl) = 2
    /\ Len(processed.graph_list) = 2
    /\ processed.graph_list[1] # processed.graph_list[2]
    /\ processed.label_list[1] # processed.label_list[2]

\* mol2graph ran on mol in the latest iteration.
GraphIsCurrent ==
    outcome \in {"skip_graph", "skip_shifts", "skip_mismatch", "accept", "ValueError"}

\* C9: an accepted molecule has a graph and a non-empty shift map, no more
\* examples are retained than there are bonded molecules with a non-empty
\* map, and mol2graph gives None exactly for a molecule without bonds, never
\* a graph without edges.
C9_NoGraphNoLabelsRejected ==
    Builder =>
        /\ outcome = "accept" =>
               /\ graph.status = "graph"
               /\ Len(mol.bonds) > 0
               /\ atom_shifts.status = "dict"
               /\ Len(atom_shifts.d) > 0
        /\ outcome = "skip_graph" <=> (GraphIsCurrent /\ Len(mol.bonds) = 0)
        /\ GraphIsCurrent =>
               /\ graph.status \in {"None", "graph"}
               /\ graph.status = "None" <=> Len(mol.bonds) = 0
               /\ graph.status = "graph" => Len(graph.edge_attr) > 0
        /\ Len(graph_list) <=
               Cardinality({k \in 1..Len(suppl) :
                               /\ ~suppl[k].isNone
                               /\ Len(suppl[k].bonds) > 0
                               /\ get_carbon_shift(suppl[k]).status = "dict"
                               /\ Len(get_carbon_shift(suppl[k]).d) > 0})
        /\ \A k \in 1..Len(graph_list) :
               graph_list[k].status = "graph" /\ Len(graph_list[k].edge_attr) > 0

\* A saved run in which a molecule without bonds and a molecule without 13C
\* observations were both dropped.
C9_Witness ==
    /\ Builder
    /\ processed.exists
    /\ Len(suppl) = 2
    /\ ~suppl[1].isNone /\ Len(suppl[1].bonds) = 0
    /\ outcome = "skip_shifts"
    /\ processed.graph_list = <<>>


-----------------------------------------------------------------------------
(* C11: the consistency check *)

Checked == outcome \in {"accept", "skip_mismatch"}

AllEqual(a, b, c) == a = b /\ b = c

C11_ChainedRejects ==
    Checked =>
        (outcome = "skip_mismatch" <=>
             (Len(shift) # Len(mask) /\ Len(mask) # NumberOfNodes(graph)))

\* A molecule whose label and mask are one atom short of the graph is
\* retained.
C11_AcceptedUnequal ==
    /\ outcome = "accept"
    /\ Len(shift) = Len(mask)
    /\ Len(mask) # NumberOfNodes(graph)
    /\ graph_list = <<graph>>
    /\ label_list = <<shift>>

\* In the runs of process() the check never fires: the three lengths are
\* the molecule's atom count.
C11_NeverFiresInProcess == outcome # "skip_mismatch"

-----------------------------------------------------------------------------
(* C12: a usable label in every retained example *)

HasUsableLabel(msk) == \E i \in 1..Len(msk) : msk[i]

\* C12: every example CarbonDatasetBuilder.process retains has at least one
\* atom index i with mask[i] true, whatever the input molecule, those whose
\* annotations tag atom indices outside 0..n_atoms-1 included.
C12_RetainedHasUsableLabel ==
    Builder =>
        /\ \A k \in 1..Len(mask_list) : HasUsableLabel(mask_list[k])
        /\ processed.exists =>
               \A k \in 1..Len(processed.mask_list) :
                   HasUsableLabel(processed.mask_list[k])

\* For a molecule whose shift map has a key that is an atom index, the
\* retained mask is true at that atom.
C12_InRangeKeyGivesLabel ==
    (Builder /\ pc = "process" /\ outcome = "accept"
        /\ \E i \in ExtractedKeys : i < Len(mol.atoms))
        => HasUsableLabel(mask_list[Len(mask_list)])

\* A retained molecule whose every annotation tags an index that is no atom.
C12_AllFalseRetained ==
    /\ Builder
    /\ pc = "process"
    /\ outcome = "accept"
    /\ ExtractedKeys # {}
    /\ \A i \in ExtractedKeys : i >= Len(mol.atoms)
    /\ ~HasUsableLabel(mask_list[Len(mask_list)])

=============================================================================
